---- MODULE Spec2Model ----
(***************************************************************************)
(* The task-graph engine of crappycook/gntm: TaskGraph.AddTask,            *)
(* TaskGraph.Execute / executeLayer, GetExecutionOrder and GetTaskStatus.  *)
(*                                                                         *)
(* The repository holds two versions of the engine.  src/unnamed/part_000  *)
(* keeps its options in tg.opts, limits each layer's errgroup with         *)
(* SetLimit and does not sort the graph in Execute; src/graph/task.go      *)
(* takes ExecuteOptions by value, never applies WorkerCount to the         *)
(* errgroup and sorts the graph first.  AddTask, the body of a task's      *)
(* goroutine, GetExecutionOrder and GetTaskStatus are the same text in     *)
(* both.  The variable `variant` says which version a behaviour runs.      *)
(*                                                                         *)
(* Task identifiers are numbers.  A Task is the record [Depends,           *)
(* Condition, Status]: Depends the identifiers of the tasks its Depends     *)
(* field points to, Condition whether the Condition field is non-nil.      *)
(* Work functions and guards are the caller's: a guard's answer and a work *)
(* function's success are chosen freely at each call, and the value a work *)
(* function returns is the token WorkValue(id, run).                       *)
(*                                                                         *)
(* The caller registers the tasks 1..NumTasks with any dependency list of  *)
(* at most MaxDeps identifiers (unknown, repeated and own identifiers      *)
(* included), with or without a Condition, and the four tasks of the two   *)
(* example programs; then it calls Execute up to MaxRuns times, one call   *)
(* at a time, with WithWorkerCount(0..MaxWorkerArg).  Identifiers are      *)
(* interchangeable, so the k-th identifier to enter the store is k; the    *)
(* caller stops registering new tasks after MaxFailedAdds failed           *)
(* insertions.  Between its other calls it asks for the execution order    *)
(* and for the status of a task.  The context it passes to Execute is      *)
(* context.Background(), which is never cancelled.                         *)
(*                                                                         *)
(* Spec is this caller.  FairSpec adds that a run under way takes its      *)
(* steps: goroutines are scheduled, guards and work functions return.      *)
(* OverlapSpec is a caller with a second goroutine that calls Execute      *)
(* while the last call of the first is running; that caller makes no       *)
(* queries.                                                                *)
(***************************************************************************)
EXTENDS Integers, Sequences, FiniteSets, TLC

\* ---------------------------------------------------------------- bounds

NumTasks == 2

MaxDeps == 2

MaxRuns == 2

MaxWorkerArg == 2

MaxFailedAdds == 2

MaxOverlapTasks == 2

\* ------------------------------------------------------------- constants

\* NewTaskGraph: opts.WorkerCount = 5; task.go Execute: the default 5.
DefaultWorkerCount == 5

\* errgroup without SetLimit: "a negative value indicates no limit".
NoLimit == -1

\* maxDepLayer := -1
InitMaxDepLayer == -1

Ids == 1..NumTasks

\* Depends may point to a task that is not among 1..NumTasks.
DepIds == 1..(NumTasks + 1)

DepLists == UNION {[1..n -> DepIds] : n \in 0..MaxDeps}

Variants == {"part_000", "task.go"}

TaskStatusPending == "pending"

TaskStatusRunning == "running"

TaskStatusCompleted == "completed"

TaskStatusFailed == "failed"

TaskStatusSkipped == "skipped"

\* The errors the engine returns, by the text that wraps them.
ErrNil == "nil"

ErrAddTask == "failed to add task"

ErrAddDependency == "failed to add dependency"

ErrLayerMap == "not found in layer map"

ErrInvalidGraph == "invalid task graph"

ErrTaskFailed == "task failed"

ErrSortTasks == "failed to sort tasks"

ErrNotFound == "task not found"

EmptyMap == <<>>

VARIABLES
  variant,      \* which version of the engine runs
  tasks,        \* tg.graph's vertices: identifier -> Task
  edges,        \* tg.graph's edges: <<source, target>>
  taskLayers,   \* tg.taskLayers
  tgOpts,       \* tg.opts.WorkerCount (part_000)
  added,        \* identifiers whose AddTask returned nil
  pc,           \* "idle", or "layer" while Execute runs a layer
  runs,         \* Execute calls made so far
  runOpts,      \* the WorkerCount configured for the current run
  layers,       \* Execute's layers array
  cur,          \* index of the layer executeLayer is running
  limit,        \* the errgroup's limit
  tpc,          \* per task, in the current run: where its goroutine is
  results,      \* Execute's results map
  layerResults, \* executeLayer's layerResults map
  inputs,       \* per task: the inputs map its goroutine built
  firstErr,     \* the errgroup's error: the task it names, or 0
  launches,     \* per task: goroutines launched for it in the current run
  guards,       \* per task: the answers of its Condition in the current run
  workCalls,    \* per task: Execute-field calls in the current run
  writes,       \* per task: the Status values written in the current run
  ctx,          \* which contexts are cancelled: the caller's, the errgroup's
  workCtx,      \* per task: the errgroup's context when its work function
                \* was called in the current run ("none": not called)
  ret,          \* what the last call returned
  other         \* the local variables of an Execute call that overlaps

graphVars == <<tasks, edges, taskLayers>>

runVars == <<pc, runs, runOpts, layers, cur, limit, tpc, results, layerResults,
             inputs, firstErr, launches, guards, workCalls, writes, ctx, workCtx>>

vars == <<variant, tasks, edges, taskLayers, tgOpts, added, pc, runs, runOpts,
          layers, cur, limit, tpc, results, layerResults, inputs, firstErr,
          launches, guards, workCalls, writes, ctx, workCtx, ret, other>>

\* ------------------------------------------------- the dependency store

Max(a, b) == IF a > b THEN a ELSE b

\* graph.AddVertex: ErrVertexAlreadyExists when the hash is stored.
AddVertexFails(V, id) == id \in V

\* graph.AddEdge on a directed graph without PreventCycles: both endpoints
\* must be vertices and the edge must be new; a self-loop is accepted.
AddEdgeFails(V, E, src, dst) ==
  \/ src \notin V
  \/ dst \notin V
  \/ <<src, dst>> \in E

\* graph.TopologicalSort (Kahn): vertices without a remaining predecessor
\* are removed until none is left; what stays lies on or behind a cycle.
RECURSIVE Peel(_, _)
Peel(V, E) ==
  LET free == {v \in V : ~ \E u \in V : <<u, v>> \in E}
  IN  IF free = {} THEN V ELSE Peel(V \ free, E)

TopologicalSortFails(V, E) == Peel(V, E) # {}

\* ---------------------------------------------------------------- AddTask

NewLayerSame(maxDepLayer) == maxDepLayer

\* tg.taskLayers[task.ID] = maxDepLayer + 1
NewLayer(maxDepLayer) == maxDepLayer + 1

VertexErrIgnored(V, id) == ErrNil

\* if err := tg.graph.AddVertex(task); err != nil { return ... }
VertexErr(V, id) == IF AddVertexFails(V, id) THEN ErrAddTask ELSE ErrNil

DepErrorLayerFirst(V, E, dep, id) ==
  IF dep \notin DOMAIN taskLayers THEN ErrLayerMap
  ELSE IF AddEdgeFails(V, E, dep, id) THEN ErrAddDependency
  ELSE ErrNil

\* One turn of the loop over task.Depends: the edge is inserted first, the
\* dependency's layer is looked up second.
DepError(V, E, dep, id) ==
  IF AddEdgeFails(V, E, dep, id) THEN ErrAddDependency
  ELSE IF dep \notin DOMAIN taskLayers THEN ErrLayerMap
  ELSE ErrNil

RECURSIVE DepLoopRollback(_, _, _, _, _, _)
DepLoopRollback(V, id, deps, i, E, maxDepLayer) ==
  IF i > Len(deps)
  THEN [err |-> ErrNil, edges |-> E, maxDepLayer |-> maxDepLayer]
  ELSE LET dep == deps[i]
           e   == DepError(V, E, dep, id)
           E2  == IF AddEdgeFails(V, E, dep, id) THEN E ELSE E \cup {<<dep, id>>}
       IN  IF e # ErrNil
           THEN [err |-> e, edges |-> {x \in E2 : x[2] # id},
                 maxDepLayer |-> maxDepLayer]
           ELSE DepLoopRollback(V, id, deps, i + 1, E2,
                                Max(maxDepLayer, taskLayers[dep]))

\* The loop over task.Depends, from its i-th element: the edges inserted,
\* the largest layer seen, and the error that ended it.
RECURSIVE DepLoop(_, _, _, _, _, _)
DepLoop(V, id, deps, i, E, maxDepLayer) ==
  IF i > Len(deps)
  THEN [err |-> ErrNil, edges |-> E, maxDepLayer |-> maxDepLayer]
  ELSE LET dep == deps[i]
           e   == DepError(V, E, dep, id)
           E2  == IF AddEdgeFails(V, E, dep, id) THEN E ELSE E \cup {<<dep, id>>}
       IN  IF e # ErrNil
           THEN [err |-> e, edges |-> E2, maxDepLayer |-> maxDepLayer]
           ELSE DepLoop(V, id, deps, i + 1, E2, Max(maxDepLayer, taskLayers[dep]))

NewTask(deps, cond) ==
  [Depends |-> deps, Condition |-> cond, Status |-> TaskStatusPending]

\* A call's return: the error, the task a task failure names or a status
\* query asked for, the results map (isNil: the map returned is nil) and the
\* TaskStatus returned ("" with an error).  While Execute runs, ret is
\* Ret("pending", 0, ErrNil): the call has not returned.
Ret(op, id, err) ==
  [op |-> op, task |-> id, err |-> err, isNil |-> TRUE, results |-> EmptyMap,
   status |-> ""]

\* The graph is built before it is run, and identifiers are interchangeable:
\* the k-th identifier to enter the store is k.  A caller gives up building
\* after MaxFailedAdds of its insertions failed.
AddTask(id, deps, cond) ==
  /\ pc = "idle"
  /\ runs = 0
  /\ id <= Cardinality(DOMAIN tasks) + 1
  /\ id \in DOMAIN tasks \/ Cardinality(DOMAIN tasks \ added) < MaxFailedAdds
  /\ IF VertexErr(DOMAIN tasks, id) # ErrNil
     THEN /\ ret' = Ret("AddTask", 0, VertexErr(DOMAIN tasks, id))
          /\ UNCHANGED <<tasks, edges, taskLayers, added>>
     ELSE LET V == DOMAIN tasks \cup {id}
              l == DepLoop(V, id, deps, 1, edges, InitMaxDepLayer)
              L == IF l.err = ErrNil
                   THEN (id :> (IF Len(deps) = 0 THEN 0 ELSE NewLayer(l.maxDepLayer)))
                        @@ taskLayers
                   ELSE taskLayers
              e == IF l.err # ErrNil THEN l.err
                   ELSE IF TopologicalSortFails(V, l.edges) THEN ErrInvalidGraph
                   ELSE ErrNil
          IN  /\ tasks' = (id :> NewTask(deps, cond)) @@ tasks
              /\ edges' = l.edges
              /\ taskLayers' = L
              /\ added' = IF e = ErrNil THEN added \cup {id} ELSE added
              /\ ret' = Ret("AddTask", 0, e)
  /\ UNCHANGED <<other, variant, tgOpts>>
  /\ UNCHANGED runVars

\* ------------------------------------------------------ GetExecutionOrder

GetExecutionOrder ==
  /\ pc = "idle"
  /\ ret' = Ret("GetExecutionOrder", 0,
                 IF TopologicalSortFails(DOMAIN tasks, edges)
                 THEN ErrInvalidGraph ELSE ErrNil)
  /\ UNCHANGED <<other, variant, tgOpts, added>>
  /\ UNCHANGED graphVars
  /\ UNCHANGED runVars

\* ---------------------------------------------------------- GetTaskStatus

\* graph.Vertex: ErrVertexNotFound when the hash is not stored.
VertexFails(V, id) == id \notin V

StatusReadRegistered(id) == TaskStatusPending

\* return task.Status, nil
StatusRead(id) == tasks[id].Status

\* The caller asks between its other calls, for a task of the store or for
\* the first identifier that is not in it.
GetTaskStatus(taskID) ==
  /\ pc = "idle"
  /\ ret' = IF VertexFails(DOMAIN tasks, taskID)
            THEN Ret("GetTaskStatus", taskID, ErrNotFound)
            ELSE [Ret("GetTaskStatus", taskID, ErrNil)
                    EXCEPT !.status = StatusRead(taskID)]
  /\ UNCHANGED <<other, variant, tgOpts, added>>
  /\ UNCHANGED graphVars
  /\ UNCHANGED runVars

\* ---------------------------------------------------------------- Execute

WithWorkerCountAny(count, workerCount) == count

\* WithWorkerCount(count) applied to tg.opts (part_000).
WithWorkerCount(count, workerCount) == IF count > 0 THEN count ELSE workerCount

\* if opts.WorkerCount <= 0 { opts.WorkerCount = 5 }  (task.go)
DefaultedWorkerCount(count) == IF count <= 0 THEN DefaultWorkerCount ELSE count

MaxLayerFromOne(L, S) ==
  IF S = {} THEN 1
  ELSE Max(1, CHOOSE m \in {L[t] : t \in S} : \A t \in S : L[t] <= m)

\* maxLayer := 0; for _, layer := range tg.taskLayers { ... }
RECURSIVE MaxLayerOf(_, _)
MaxLayerOf(L, S) ==
  IF S = {} THEN 0
  ELSE LET t == CHOOSE u \in S : TRUE
       IN  Max(L[t], MaxLayerOf(L, S \ {t}))

\* layers := make([][]string, maxLayer+1), filled from tg.taskLayers.  A
\* layer is kept as a set: the map's iteration order, which is the order
\* the layer's tasks are launched in, is any.
LayersOf(L) ==
  [i \in 1..(MaxLayerOf(L, DOMAIN L) + 1) |-> {t \in DOMAIN L : L[t] = i - 1}]

\* g.SetLimit(tg.opts.WorkerCount) in part_000; task.go sets no limit.
LayerLimit(v, workerCount) == IF v = "part_000" THEN workerCount ELSE NoLimit

\* The value the work function of task t returns in run r.
WorkValue(t, r) == <<t, r>>

Settled == {"skipped", "completed", "failed"}

\* Goroutines of the current layer that hold a slot of the errgroup.
Active == {t \in layers[cur] : tpc[t] \in {"started", "working"}}

CancelWithParent(c) == [caller |-> TRUE, layer |-> TRUE]

\* The errgroup cancels the context it derived, when a goroutine returns the
\* first error and when Wait returns; the parent context is not touched.
Cancel(c) == [c EXCEPT !.layer = TRUE]

\* errgroup.WithContext(ctx): a new context derived from the caller's.
WithContext(c) == [c EXCEPT !.layer = c.caller]

\* The context a work function is called with, as the function finds it.
CtxState(c) == IF c.layer THEN "cancelled" ELSE "live"

Execute(count) ==
  /\ pc = "idle"
  /\ runs < MaxRuns
  /\ runs' = runs + 1
  /\ tgOpts' = IF variant = "part_000" THEN WithWorkerCount(count, tgOpts) ELSE tgOpts
  /\ runOpts' = IF variant = "part_000" THEN tgOpts' ELSE DefaultedWorkerCount(count)
  /\ tpc' = [t \in DOMAIN tasks |-> "idle"]
  /\ inputs' = [t \in DOMAIN tasks |-> EmptyMap]
  /\ launches' = [t \in DOMAIN tasks |-> 0]
  /\ guards' = [t \in DOMAIN tasks |-> <<>>]
  /\ workCalls' = [t \in DOMAIN tasks |-> 0]
  /\ writes' = [t \in DOMAIN tasks |-> <<>>]
  /\ workCtx' = [t \in DOMAIN tasks |-> "none"]
  /\ results' = EmptyMap
  /\ layerResults' = EmptyMap
  /\ firstErr' = 0
  /\ IF variant = "task.go" /\ TopologicalSortFails(DOMAIN tasks, edges)
     THEN /\ ret' = Ret("Execute", 0, ErrSortTasks)
          /\ UNCHANGED <<pc, layers, cur, limit, ctx>>
     ELSE /\ pc' = "layer"
          /\ ctx' = WithContext(ctx)
          /\ layers' = LayersOf(taskLayers)
          /\ cur' = 1
          /\ limit' = LayerLimit(variant, runOpts')
          /\ ret' = Ret("pending", 0, ErrNil)
  /\ UNCHANGED <<other, variant, added>>
  /\ UNCHANGED graphVars

\* g.Go(func): waits for a free slot of the errgroup, then starts the
\* goroutine of one more task of the layer.
Go(t) ==
  /\ pc = "layer"
  /\ t \in layers[cur]
  /\ tpc[t] = "idle"
  /\ limit < 0 \/ Cardinality(Active) < limit
  /\ tpc' = [tpc EXCEPT ![t] = "started"]
  /\ launches' = [launches EXCEPT ![t] = @ + 1]
  /\ UNCHANGED <<other, variant, tgOpts, added, pc, runs, runOpts, layers, cur, limit,
                 results, layerResults, inputs, firstErr, guards, workCalls,
                 writes, ctx, workCtx, ret>>
  /\ UNCHANGED graphVars

InputsAll(deps, res) == res

\* inputs: the entries of results for the task's Depends.
InputsOf(deps, res) ==
  [d \in {deps[i] : i \in 1..Len(deps)} \cap DOMAIN res |-> res[d]]

SkipsNever(condition, guard) == FALSE

\* if task.Condition != nil && !task.Condition(inputs)
Skips(condition, guard) == condition /\ ~guard

SetStatusOfAll(t, st) == [u \in DOMAIN tasks |-> [tasks[u] EXCEPT !.Status = st]]

\* task.Status = ...
SetStatus(t, st) == [tasks EXCEPT ![t].Status = st]

\* The goroutine up to the call of the work function: it builds inputs,
\* asks the Condition (guard is its answer) and is Skipped or Running.
TaskBegin(t, guard) ==
  /\ pc = "layer"
  /\ t \in layers[cur]
  /\ tpc[t] = "started"
  /\ inputs' = [inputs EXCEPT ![t] = InputsOf(tasks[t].Depends, results)]
  /\ IF tasks[t].Condition
     THEN guards' = [guards EXCEPT ![t] = Append(@, guard)]
     ELSE /\ guard
          /\ UNCHANGED guards
  /\ IF Skips(tasks[t].Condition, guard)
     THEN /\ tasks' = SetStatus(t, TaskStatusSkipped)
          /\ writes' = [writes EXCEPT ![t] = Append(@, TaskStatusSkipped)]
          /\ tpc' = [tpc EXCEPT ![t] = "skipped"]
          /\ UNCHANGED <<workCalls, workCtx>>
     ELSE /\ tasks' = SetStatus(t, TaskStatusRunning)
          /\ writes' = [writes EXCEPT ![t] = Append(@, TaskStatusRunning)]
          /\ tpc' = [tpc EXCEPT ![t] = "working"]
          /\ workCalls' = [workCalls EXCEPT ![t] = @ + 1]
          /\ workCtx' = [workCtx EXCEPT ![t] = CtxState(ctx)]
  /\ UNCHANGED <<other, variant, edges, taskLayers, tgOpts, added, pc, runs, runOpts,
                 layers, cur, limit, results, layerResults, firstErr, launches,
                 ctx, ret>>

\* The errgroup keeps the first error a goroutine returns: "task t failed".
FirstError(err, t) == IF err = 0 THEN t ELSE err

\* The work function returns (ok: without an error) and the goroutine ends.
\* The errgroup keeps the first error it is given.
TaskEnd(t, ok) ==
  /\ pc = "layer"
  /\ t \in layers[cur]
  /\ tpc[t] = "working"
  /\ IF ok
     THEN /\ tasks' = SetStatus(t, TaskStatusCompleted)
          /\ writes' = [writes EXCEPT ![t] = Append(@, TaskStatusCompleted)]
          /\ layerResults' = (t :> WorkValue(t, runs)) @@ layerResults
          /\ tpc' = [tpc EXCEPT ![t] = "completed"]
          /\ UNCHANGED <<firstErr, ctx>>
     ELSE /\ tasks' = SetStatus(t, TaskStatusFailed)
          /\ writes' = [writes EXCEPT ![t] = Append(@, TaskStatusFailed)]
          /\ firstErr' = FirstError(firstErr, t)
          /\ ctx' = Cancel(ctx)
          /\ tpc' = [tpc EXCEPT ![t] = "failed"]
          /\ UNCHANGED layerResults
  /\ UNCHANGED <<other, variant, edges, taskLayers, tgOpts, added, pc, runs, runOpts,
                 layers, cur, limit, results, inputs, launches, guards,
                 workCalls, workCtx, ret>>

LayerSettledEarly == \A t \in layers[cur] : tpc[t] # "started"

\* g.Wait() returns once every task of the layer was launched and ended.
LayerSettled == \A t \in layers[cur] : tpc[t] \in Settled

MergeNothing(res, layerRes) == res

\* for k, v := range layerResults { results[k] = v }
Merge(res, layerRes) == layerRes @@ res

FailureReturnPartial(res, failed) ==
  [Ret("Execute", failed, ErrTaskFailed) EXCEPT !.isNil = FALSE, !.results = res]

\* if err != nil { return nil, err }
FailureReturn(res, failed) == Ret("Execute", failed, ErrTaskFailed)

\* g.Wait() returned an error: executeLayer and Execute return nil and it.
LayerFailed ==
  /\ pc = "layer"
  /\ LayerSettled
  /\ firstErr # 0
  /\ pc' = "idle"
  /\ ret' = FailureReturn(results, firstErr)
  /\ ctx' = Cancel(ctx)
  /\ UNCHANGED <<other, variant, tgOpts, added, runs, runOpts, layers, cur, limit, tpc,
                 results, layerResults, inputs, firstErr, launches, guards,
                 workCalls, writes, workCtx>>
  /\ UNCHANGED graphVars

\* The layer ended without an error and is not the last: its results are
\* merged and executeLayer starts on the next layer with a new errgroup.
NextLayer ==
  /\ pc = "layer"
  /\ LayerSettled
  /\ firstErr = 0
  /\ cur < Len(layers)
  /\ results' = Merge(results, layerResults)
  /\ cur' = cur + 1
  /\ layerResults' = EmptyMap
  /\ limit' = LayerLimit(variant, tgOpts)
  /\ ctx' = WithContext(Cancel(ctx))
  /\ UNCHANGED <<other, variant, tgOpts, added, pc, runs, runOpts, layers, tpc, inputs,
                 firstErr, launches, guards, workCalls, writes, workCtx, ret>>
  /\ UNCHANGED graphVars

\* The last layer ended without an error: Execute returns results.
ExecuteReturn ==
  /\ pc = "layer"
  /\ LayerSettled
  /\ firstErr = 0
  /\ cur = Len(layers)
  /\ results' = Merge(results, layerResults)
  /\ pc' = "idle"
  /\ ret' = [Ret("Execute", 0, ErrNil) EXCEPT !.isNil = FALSE, !.results = results']
  /\ ctx' = Cancel(ctx)
  /\ UNCHANGED <<other, variant, tgOpts, added, runs, runOpts, layers, cur, limit, tpc,
                 layerResults, inputs, firstErr, launches, guards, workCalls,
                 writes, workCtx>>
  /\ UNCHANGED graphVars

\* ------------------------------------------------- an overlapping Execute

\* A second goroutine of the caller calls Execute once while the last call of
\* the first is running layers, on a graph of at most MaxOverlapTasks tasks.  Its
\* local variables are the fields of `other`; the task registry, the layer
\* map and tg.opts are the ones both calls use.  The values its work
\* functions return are the tokens WorkValue(id, OtherRun).
OtherRun == "overlapping"

NoCall ==
  [pc |-> "none", runOpts |-> DefaultWorkerCount, layers |-> <<>>, cur |-> 0,
   limit |-> NoLimit, tpc |-> EmptyMap, results |-> EmptyMap,
   layerResults |-> EmptyMap, firstErr |-> 0, ret |-> Ret("none", 0, ErrNil)]

OtherActive ==
  {t \in other.layers[other.cur] : other.tpc[t] \in {"started", "working"}}

OtherLayerSettled == \A t \in other.layers[other.cur] : other.tpc[t] \in Settled

OtherExecute(count) ==
  /\ pc = "layer"
  /\ runs = MaxRuns
  /\ other.pc = "none"
  /\ Cardinality(DOMAIN tasks) <= MaxOverlapTasks
  /\ tgOpts' = IF variant = "part_000" THEN WithWorkerCount(count, tgOpts) ELSE tgOpts
  /\ IF variant = "task.go" /\ TopologicalSortFails(DOMAIN tasks, edges)
     THEN other' = [NoCall EXCEPT !.pc = "done",
                                  !.runOpts = DefaultedWorkerCount(count),
                                  !.ret = Ret("Execute", 0, ErrSortTasks)]
     ELSE other' = [NoCall EXCEPT
                      !.pc = "layer",
                      !.runOpts = IF variant = "part_000" THEN tgOpts'
                                  ELSE DefaultedWorkerCount(count),
                      !.layers = LayersOf(taskLayers),
                      !.cur = 1,
                      !.limit = LayerLimit(variant, tgOpts'),
                      !.tpc = [t \in DOMAIN tasks |-> "idle"],
                      !.ret = Ret("pending", 0, ErrNil)]
  /\ UNCHANGED <<variant, added, ret>>
  /\ UNCHANGED graphVars
  /\ UNCHANGED runVars

OtherGo(t) ==
  /\ other.pc = "layer"
  /\ t \in other.layers[other.cur]
  /\ other.tpc[t] = "idle"
  /\ other.limit < 0 \/ Cardinality(OtherActive) < other.limit
  /\ other' = [other EXCEPT !.tpc[t] = "started"]
  /\ UNCHANGED <<variant, tgOpts, added, ret>>
  /\ UNCHANGED graphVars
  /\ UNCHANGED runVars

OtherTaskBegin(t, guard) ==
  /\ other.pc = "layer"
  /\ t \in other.layers[other.cur]
  /\ other.tpc[t] = "started"
  /\ tasks[t].Condition \/ guard
  /\ IF Skips(tasks[t].Condition, guard)
     THEN /\ tasks' = SetStatus(t, TaskStatusSkipped)
          /\ other' = [other EXCEPT !.tpc[t] = "skipped"]
     ELSE /\ tasks' = SetStatus(t, TaskStatusRunning)
          /\ other' = [other EXCEPT !.tpc[t] = "working"]
  /\ UNCHANGED <<variant, edges, taskLayers, tgOpts, added, ret>>
  /\ UNCHANGED runVars

OtherTaskEnd(t, ok) ==
  /\ other.pc = "layer"
  /\ t \in other.layers[other.cur]
  /\ other.tpc[t] = "working"
  /\ IF ok
     THEN /\ tasks' = SetStatus(t, TaskStatusCompleted)
          /\ other' = [other EXCEPT
                         !.tpc[t] = "completed",
                         !.layerResults = (t :> WorkValue(t, OtherRun)) @@ @]
     ELSE /\ tasks' = SetStatus(t, TaskStatusFailed)
          /\ other' = [other EXCEPT
                         !.tpc[t] = "failed",
                         !.firstErr = FirstError(@, t)]
  /\ UNCHANGED <<variant, edges, taskLayers, tgOpts, added, ret>>
  /\ UNCHANGED runVars

OtherLayerFailed ==
  /\ other.pc = "layer"
  /\ OtherLayerSettled
  /\ other.firstErr # 0
  /\ other' = [other EXCEPT !.pc = "done",
                            !.ret = FailureReturn(other.results, other.firstErr)]
  /\ UNCHANGED <<variant, tgOpts, added, ret>>
  /\ UNCHANGED graphVars
  /\ UNCHANGED runVars

OtherNextLayer ==
  /\ other.pc = "layer"
  /\ OtherLayerSettled
  /\ other.firstErr = 0
  /\ other.cur < Len(other.layers)
  /\ other' = [other EXCEPT !.results = Merge(@, other.layerResults),
                            !.cur = @ + 1,
                            !.layerResults = EmptyMap,
                            !.limit = LayerLimit(variant, tgOpts)]
  /\ UNCHANGED <<variant, tgOpts, added, ret>>
  /\ UNCHANGED graphVars
  /\ UNCHANGED runVars

OtherExecuteReturn ==
  /\ other.pc = "layer"
  /\ OtherLayerSettled
  /\ other.firstErr = 0
  /\ other.cur = Len(other.layers)
  /\ LET res == Merge(other.results, other.layerResults)
     IN  other' = [other EXCEPT
                     !.pc = "done",
                     !.results = res,
                     !.ret = [Ret("Execute", 0, ErrNil)
                                EXCEPT !.isNil = FALSE, !.results = res]]
  /\ UNCHANGED <<variant, tgOpts, added, ret>>
  /\ UNCHANGED graphVars
  /\ UNCHANGED runVars

\* ------------------------------------------------------------------- Init

\* The tasks RunTaskExample and RunConditionalExample register, in their
\* order: get_user, get_orders, get_points or get_vip_privileges (with a
\* Condition), summarize or calculate_discount (with a Condition).
ExampleTasks ==
  { <<1, <<>>, FALSE>>, <<2, <<1>>, FALSE>>,
    <<3, <<1>>, FALSE>>, <<3, <<1>>, TRUE>>,
    <<4, <<2, 3>>, FALSE>>, <<4, <<2, 3>>, TRUE>> }

\* The AddTask calls a caller makes: <<identifier, Depends, Condition>>.
Registrations == (Ids \X DepLists \X BOOLEAN) \cup ExampleTasks

Init ==
  /\ variant \in Variants
  /\ tasks = EmptyMap
  /\ edges = {}
  /\ taskLayers = EmptyMap
  /\ tgOpts = DefaultWorkerCount
  /\ added = {}
  /\ pc = "idle"
  /\ runs = 0
  /\ runOpts = DefaultWorkerCount
  /\ layers = <<>>
  /\ cur = 0
  /\ limit = NoLimit
  /\ tpc = EmptyMap
  /\ results = EmptyMap
  /\ layerResults = EmptyMap
  /\ inputs = EmptyMap
  /\ firstErr = 0
  /\ launches = EmptyMap
  /\ guards = EmptyMap
  /\ workCalls = EmptyMap
  /\ writes = EmptyMap
  /\ ctx = [caller |-> FALSE, layer |-> FALSE]
  /\ workCtx = EmptyMap
  /\ ret = Ret("NewTaskGraph", 0, ErrNil)
  /\ other = NoCall

Next ==
  \/ \E x \in Registrations : AddTask(x[1], x[2], x[3])
  \/ GetExecutionOrder
  \/ \E taskID \in 1..(Cardinality(DOMAIN tasks) + 1) : GetTaskStatus(taskID)
  \/ \E count \in 0..MaxWorkerArg : Execute(count)
  \/ \E t \in DOMAIN tasks : Go(t)
  \/ \E t \in DOMAIN tasks, guard \in BOOLEAN : TaskBegin(t, guard)
  \/ \E t \in DOMAIN tasks, ok \in BOOLEAN : TaskEnd(t, ok)
  \/ LayerFailed
  \/ NextLayer
  \/ ExecuteReturn

Spec == Init /\ [][Next]_vars

\* The steps of a run that is under way: the Go scheduler runs every
\* goroutine that can run, and every guard and work function returns.
RunStep ==
  \/ \E t \in DOMAIN tasks : Go(t)
  \/ \E t \in DOMAIN tasks, guard \in BOOLEAN : TaskBegin(t, guard)
  \/ \E t \in DOMAIN tasks, ok \in BOOLEAN : TaskEnd(t, ok)
  \/ LayerFailed
  \/ NextLayer
  \/ ExecuteReturn

FairSpec == Spec /\ WF_vars(RunStep)

\* The steps of the overlapping call.
OtherStep ==
  \/ \E count \in 0..MaxWorkerArg : OtherExecute(count)
  \/ \E t \in DOMAIN tasks : OtherGo(t)
  \/ \E t \in DOMAIN tasks, guard \in BOOLEAN : OtherTaskBegin(t, guard)
  \/ \E t \in DOMAIN tasks, ok \in BOOLEAN : OtherTaskEnd(t, ok)
  \/ OtherLayerFailed
  \/ OtherNextLayer
  \/ OtherExecuteReturn

\* The caller that overlaps two Execute calls registers its tasks and runs
\* them; it makes no queries.
OverlapNext ==
  \/ \E x \in Registrations : AddTask(x[1], x[2], x[3])
  \/ \E count \in 0..MaxWorkerArg : Execute(count)
  \/ RunStep
  \/ OtherStep

OverlapSpec == Init /\ [][OverlapNext]_vars

\* ----------------------------------------------------------------- claims

DepsOf(t) == {tasks[t].Depends[i] : i \in 1..Len(tasks[t].Depends)}

Range(f) == {f[x] : x \in DOMAIN f}

\* The task has begun in the current run: its goroutine was launched, its
\* Condition asked, its work function called or its Status written.
Began(t) ==
  \/ tpc[t] # "idle"
  \/ guards[t] # <<>>
  \/ workCalls[t] > 0
  \/ writes[t] # <<>>

Untouched(t) ==
  /\ tpc[t] = "idle"
  /\ launches[t] = 0
  /\ guards[t] = <<>>
  /\ workCalls[t] = 0
  /\ writes[t] = <<>>

\* The layer rule of a task: 0 without dependencies, otherwise one more
\* than the largest layer among its dependencies.
LayerRule(t) ==
  /\ t \in DOMAIN taskLayers
  /\ IF tasks[t].Depends = <<>>
     THEN taskLayers[t] = 0
     ELSE /\ DepsOf(t) \subseteq DOMAIN taskLayers
          /\ \A d \in DepsOf(t) : taskLayers[d] < taskLayers[t]
          /\ \E d \in DepsOf(t) : taskLayers[t] = taskLayers[d] + 1

\* C1: every task whose AddTask returned nil has layer 0 if it has no
\* dependencies and otherwise 1 + the largest layer of its dependencies, and
\* no step changes or removes the layer of a task that has one.
C1_LayerRule ==
  /\ [](\A t \in added : LayerRule(t))
  /\ [][\A t \in DOMAIN taskLayers :
          t \in DOMAIN taskLayers' /\ taskLayers'[t] = taskLayers[t]]_vars

\* A task with two dependencies of different layers was registered, and
\* AddTask was called again after it.
C1_Witness ==
  /\ ret.op = "AddTask"
  /\ ret.err = ErrAddTask
  /\ \E t \in added :
       \E d1, d2 \in DepsOf(t) :
         taskLayers[d1] < taskLayers[d2] /\ taskLayers[t] = taskLayers[d2] + 1

\* C2: a task that has begun in a run finds every task of every lower layer
\* settled in that run, and each of its dependencies Completed or Skipped.
C2_LayerBarrier ==
  \A t \in DOMAIN tpc :
    Began(t) =>
      /\ t \in DOMAIN taskLayers
      /\ \A u \in DOMAIN taskLayers :
           taskLayers[u] < taskLayers[t] => tpc[u] \in Settled
      /\ \A d \in DepsOf(t) :
           /\ tpc[d] \in {"completed", "skipped"}
           /\ tasks[d].Status \in {TaskStatusCompleted, TaskStatusSkipped}

\* A task of the third layer works after one dependency completed and the
\* other was skipped.
C2_Witness ==
  \E t \in DOMAIN tpc :
    /\ tpc[t] = "working"
    /\ t \in DOMAIN taskLayers
    /\ taskLayers[t] = 2
    /\ \E d1, d2 \in DepsOf(t) :
         tasks[d1].Status = TaskStatusCompleted /\ tasks[d2].Status = TaskStatusSkipped

\* The tasks of the current layer whose work function is executing.
Working == {t \in layers[cur] : tpc[t] = "working"}

\* C3: while a layer runs, no more work functions execute at once than the
\* worker count configured for the run.
C3_WorkerLimit == pc = "layer" => Cardinality(Working) <= runOpts

\* C3 under the engine of part_000 alone, whose errgroup is limited.
C3_WorkerLimitPart000 == variant = "part_000" => C3_WorkerLimit

\* Under part_000, a layer has more tasks than the worker count and as many
\* work functions execute as the count allows while another task waits.
C3_WitnessPart000 ==
  /\ variant = "part_000"
  /\ pc = "layer"
  /\ Cardinality(layers[cur]) > runOpts
  /\ Cardinality(Working) = runOpts
  /\ \E t \in layers[cur] : tpc[t] = "idle"

\* C4: a task whose Condition answered false in a run has no work function
\* call and no Running status in that run, has status Skipped, has no entry
\* in any results map of the run, and is not the task an error names.
C4_GuardFalseSkips ==
  \A t \in DOMAIN tpc :
    FALSE \in Range(guards[t]) =>
      /\ workCalls[t] = 0
      /\ writes[t] = <<TaskStatusSkipped>>
      /\ tpc[t] = "skipped"
      /\ tasks[t].Status = TaskStatusSkipped
      /\ t \notin DOMAIN layerResults
      /\ t \notin DOMAIN results
      /\ firstErr # t
      /\ ret.op = "Execute" => t \notin DOMAIN ret.results /\ ret.task # t

\* In a second run Execute returned a results map with entries, and a task
\* whose Condition answered false is Skipped.
C4_Witness ==
  /\ ret.op = "Execute"
  /\ ret.err = ErrNil
  /\ runs = 2
  /\ \E t \in DOMAIN tpc : tpc[t] = "skipped" /\ guards[t] = <<FALSE>>
  /\ DOMAIN ret.results # {}

\* C5: once a work function failed, no task of a later layer is touched in
\* that run, and Execute returns the error of a task that failed in the run
\* with a nil results map; Execute returns a task's error only then.
C5_FailFast ==
  /\ \A t \in DOMAIN tpc :
       tpc[t] = "failed" =>
         \A u \in DOMAIN taskLayers :
           taskLayers[u] > taskLayers[t] => Untouched(u)
  /\ ret.op = "Execute" =>
       /\ (\E t \in DOMAIN tpc : tpc[t] = "failed") <=> ret.err = ErrTaskFailed
       /\ ret.err = ErrTaskFailed =>
            /\ ret.task \in DOMAIN tpc
            /\ tpc[ret.task] = "failed"
            /\ workCalls[ret.task] = 1
       /\ ret.err # ErrNil => ret.isNil /\ ret.results = EmptyMap

\* Execute returned the error of a task of the second layer, after the first
\* layer had put a result into the results map, and a third layer exists.
C5_Witness ==
  /\ ret.op = "Execute"
  /\ ret.err = ErrTaskFailed
  /\ taskLayers[ret.task] = 1
  /\ results # EmptyMap
  /\ \E u \in DOMAIN taskLayers : taskLayers[u] = 2

Succs(E, S) == {w \in {e[2] : e \in E} : \E u \in S : <<u, w>> \in E}

RECURSIVE ReachFrom(_, _)
ReachFrom(E, S) ==
  LET n == S \cup Succs(E, S) IN IF n = S THEN S ELSE ReachFrom(E, n)

\* The vertex lies on a cycle of the edges.
OnCycle(E, v) == v \in ReachFrom(E, Succs(E, {v}))

\* What an AddTask step shows of its call: a task that was in the store, or
\* the task the step put into it.
CallOf(x) ==
  \/ x[1] \in DOMAIN tasks
  \/ /\ x[1] \in DOMAIN tasks'
     /\ tasks'[x[1]] = NewTask(x[2], x[3])

\* C6: an AddTask call whose edges close a cycle returns the error of the
\* topological-sort check, and GetExecutionOrder on a graph with a cycle
\* returns the cycle error.
C6_CycleIsInvalidGraph ==
  [][/\ \A x \in Registrations :
          (/\ ret'.op = "AddTask"
           /\ AddTask(x[1], x[2], x[3])
           /\ ~OnCycle(edges, x[1])
           /\ OnCycle(edges', x[1])) => ret'.err = ErrInvalidGraph
     /\ (GetExecutionOrder /\ \E v \in DOMAIN tasks : OnCycle(edges, v))
          => ret'.err = ErrInvalidGraph]_vars

\* A dependency of the call that no AddTask call has put into the store.
IsUnknown(id, dep) == dep \notin DOMAIN tasks /\ dep # id

HasUnknown(id, deps) == \E i \in 1..Len(deps) : IsUnknown(id, deps[i])

\* The task is new and its first unknown dependency follows only distinct
\* tasks that have a layer.
UnknownFailsFirst(id, deps) ==
  /\ id \notin DOMAIN tasks
  /\ \E k \in 1..Len(deps) :
       /\ IsUnknown(id, deps[k])
       /\ \A j \in 1..(k - 1) : deps[j] \in DOMAIN taskLayers
       /\ \A i, j \in 1..(k - 1) : i # j => deps[i] # deps[j]

\* C7 as stated: AddTask with a never-registered dependency returns the
\* "not found in layer map" error and calls no work function.
C7_UnknownIsLayerMapError ==
  [][\A x \in Registrations :
       (ret'.op = "AddTask" /\ AddTask(x[1], x[2], x[3]) /\ HasUnknown(x[1], x[2]))
         => ret'.err = ErrLayerMap /\ UNCHANGED workCalls]_vars

\* C7 amended: AddTask with a never-registered dependency returns an error
\* and calls no work function; the error is "failed to add dependency" when
\* the task is new and only distinct tasks with a layer precede the unknown
\* dependency, and it is "not found in layer map" only for a dependency that
\* is in the store without a layer.
C7_UnknownIsAddDependencyError ==
  [][\A x \in Registrations :
       (ret'.op = "AddTask" /\ HasUnknown(x[1], x[2]) /\ CallOf(x)) =>
         \/ /\ ret'.err \in {ErrAddTask, ErrAddDependency, ErrLayerMap}
            /\ UnknownFailsFirst(x[1], x[2]) => ret'.err = ErrAddDependency
            /\ ret'.err = ErrLayerMap =>
                 \E i \in 1..Len(x[2]) :
                   x[2][i] \in DOMAIN tasks' /\ x[2][i] \notin DOMAIN taskLayers
            /\ UNCHANGED <<tpc, guards, workCalls>>
         \/ ~AddTask(x[1], x[2], x[3])]_vars

\* AddTask failed to add a dependency for a task whose second dependency is
\* unknown and whose first has a layer.
C7_Witness ==
  /\ ret.op = "AddTask"
  /\ ret.err = ErrAddDependency
  /\ \E t \in DOMAIN tasks \ DOMAIN taskLayers :
       /\ Len(tasks[t].Depends) = 2
       /\ tasks[t].Depends[1] \in DOMAIN taskLayers
       /\ tasks[t].Depends[2] \notin DOMAIN tasks
       /\ <<tasks[t].Depends[1], t>> \in edges

\* C8: AddTask of an identifier that is in the store returns the "failed to
\* add task" error and leaves vertices, tasks, edges and layers as they were.
C8_DuplicateLeavesGraph ==
  [][ret'.op = "AddTask" =>
       \/ /\ ret'.err = ErrAddTask
          /\ UNCHANGED <<tasks, edges, taskLayers, added>>
       \/ \A x \in Registrations :
            x[1] \in DOMAIN tasks => ~AddTask(x[1], x[2], x[3])]_vars

\* AddTask refused a duplicate on a graph that has edges and layers.
C8_Witness ==
  /\ ret.op = "AddTask"
  /\ ret.err = ErrAddTask
  /\ edges # {}
  /\ \E t \in DOMAIN taskLayers : taskLayers[t] > 0

CompletedTasks == {t \in DOMAIN tpc : tpc[t] = "completed"}

\* The tasks of RunTaskExample: A, B (dep A), C (dep A), D (deps B, C), no
\* Condition, each registered with success.
Diamond ==
  /\ added = 1..4
  /\ tasks[1].Depends = <<>> /\ tasks[2].Depends = <<1>>
  /\ tasks[3].Depends = <<1>> /\ tasks[4].Depends = <<2, 3>>
  /\ \A t \in 1..4 : ~tasks[t].Condition

\* C9: when Execute returns a results map, every task registered with
\* success was launched once and is Completed or Skipped, the map's keys are
\* the tasks Completed in the run, each with the value its work function
\* returned; for the diamond the layers are A; B, C; D and the map has 4
\* entries.
C9_SuccessResults ==
  (ret.op = "Execute" /\ ret.err = ErrNil) =>
    /\ ~ret.isNil
    /\ \A t \in added :
         /\ launches[t] = 1
         /\ workCalls[t] <= 1
         /\ tpc[t] \in {"completed", "skipped"}
         /\ tasks[t].Status \in {TaskStatusCompleted, TaskStatusSkipped}
    /\ DOMAIN ret.results = CompletedTasks
    /\ \A t \in CompletedTasks :
         /\ ret.results[t] = WorkValue(t, runs)
         /\ workCalls[t] = 1
         /\ tasks[t].Status = TaskStatusCompleted
    /\ Diamond =>
         /\ layers = <<{1}, {2, 3}, {4}>>
         /\ Cardinality(DOMAIN ret.results) = 4

\* Execute returned the results of the diamond.
C9_Witness ==
  /\ ret.op = "Execute"
  /\ ret.err = ErrNil
  /\ Diamond
  /\ DOMAIN ret.results = 1..4

\* C10: the inputs a task's goroutine built hold exactly the dependencies
\* Completed in this run, each with the value its work function returned in
\* this run; and an error Execute returns is that of a work function.
C10_InputSnapshot ==
  /\ \A t \in DOMAIN tpc :
       tpc[t] \notin {"idle", "started"} =>
         /\ DOMAIN inputs[t] = {d \in DepsOf(t) : tpc[d] = "completed"}
         /\ \A d \in DOMAIN inputs[t] : inputs[t][d] = WorkValue(d, runs)
  /\ firstErr # 0 => tpc[firstErr] = "failed" /\ workCalls[firstErr] = 1

\* A task works on the value of one dependency while its other dependency
\* was skipped, and a task outside its dependencies has a result.
C10_Witness ==
  \E t \in DOMAIN tpc :
    /\ tpc[t] = "working"
    /\ \E d1, d2 \in DepsOf(t) :
         /\ tpc[d1] = "completed"
         /\ tpc[d2] = "skipped"
         /\ DOMAIN inputs[t] = {d1}
    /\ DOMAIN results \ DepsOf(t) # {}

\* C11: in every Execute call that starts running layers, the limit of the
\* errgroup is the call's own positive WithWorkerCount argument, or the
\* default 5 when the argument is absent or not positive, and it stays so
\* from layer to layer; stated for the engine that limits its errgroup.
C11_LimitIsOwnOption ==
  [][variant = "part_000" =>
       /\ \A count \in 0..MaxWorkerArg :
            (Execute(count) /\ pc' = "layer")
              => limit' = DefaultedWorkerCount(count)
       /\ NextLayer => limit' = limit]_vars

\* What part_000 does instead: the limit of a call is the last positive
\* count any call so far supplied, or 5 when none did.
C11_LimitIsAccumulatedOption ==
  [][variant = "part_000" =>
       /\ \A count \in 0..MaxWorkerArg :
            (Execute(count) /\ pc' = "layer")
              => limit' = WithWorkerCount(count, tgOpts)
       /\ NextLayer => limit' = limit]_vars

\* The store holds a cycle, and Execute has been called on it.
RanOnCycle == runs > 0 /\ TopologicalSortFails(DOMAIN tasks, edges)

\* C12: Execute on a graph that holds a cycle asks no Condition and calls no
\* work function, and what it returns is an error.
C12_ExecuteRejectsCycle ==
  RanOnCycle =>
    /\ \A t \in DOMAIN tpc : guards[t] = <<>> /\ workCalls[t] = 0
    /\ ret.op = "Execute" => ret.err # ErrNil

\* The engine of task.go, which sorts the graph first, does reject a cycle.
C12_ExecuteRejectsCycleTaskGo == variant = "task.go" => C12_ExecuteRejectsCycle

\* task.go's Execute refused a graph in which a failed AddTask left a cycle
\* beside a task that has a layer.
C12_WitnessTaskGo ==
  /\ variant = "task.go"
  /\ RanOnCycle
  /\ ret.op = "Execute"
  /\ ret.err = ErrSortTasks
  /\ taskLayers # EmptyMap

\* C14: GetTaskStatus returns the "not found" error exactly for an
\* identifier that is not in the store (a task that a failed AddTask call
\* left there is in the store), otherwise the task's Status with a nil
\* error, and changes nothing; and a task's Status is Pending at
\* registration and changes only in a step in which the layer executor
\* writes it, to the value written.
C14_StatusQuery ==
  /\ [](ret.op = "GetTaskStatus" =>
          /\ ret.err = ErrNotFound <=> ret.task \notin DOMAIN tasks
          /\ ret.err # ErrNotFound => ret.err = ErrNil
          /\ ret.task \in DOMAIN tasks => ret.status = tasks[ret.task].Status)
  /\ [][ret'.op = "GetTaskStatus" =>
          UNCHANGED <<other, variant, tasks, edges, taskLayers, tgOpts, added, pc,
                      runs, runOpts, layers, cur, limit, tpc, results,
                      layerResults, inputs, firstErr, launches, guards,
                      workCalls, writes, ctx, workCtx>>]_vars
  /\ [][/\ \A t \in DOMAIN tasks' \ DOMAIN tasks :
             tasks'[t].Status = TaskStatusPending
        /\ \A t \in DOMAIN tasks :
             /\ t \in DOMAIN tasks'
             /\ tasks'[t].Status # tasks[t].Status
                  => writes'[t] = Append(writes[t], tasks'[t].Status)
             /\ (t \in DOMAIN writes /\ Len(writes'[t]) > Len(writes[t]))
                  => tasks'[t].Status = writes'[t][Len(writes'[t])]]_vars

\* After a second run in which a task of the first layer failed, the status
\* of a task of a later layer, which the second run did not touch, is
\* returned: Completed, written by the first run.
C14_Witness ==
  /\ ret.op = "GetTaskStatus"
  /\ ret.err = ErrNil
  /\ runs = 2
  /\ writes[ret.task] = <<>>
  /\ ret.status = TaskStatusCompleted
  /\ \E t \in DOMAIN tasks : tasks[t].Status = TaskStatusFailed

\* GetTaskStatus answered "not found" on a store that holds tasks.
C14_WitnessNotFound ==
  /\ ret.op = "GetTaskStatus"
  /\ ret.err = ErrNotFound
  /\ DOMAIN tasks # {}

\* The first k dependencies of the call have their edge to id in E.
EdgesUpTo(E, id, deps, k) == \A j \in 1..k : <<deps[j], id>> \in E

\* graph.AddEdge refuses the k-th dependency of the call: it is not in the
\* store, or an earlier dependency of the call is the same task.
EdgeRefusedAt(V, id, deps, k) ==
  \/ deps[k] \notin V
  \/ \E j \in 1..(k - 1) : deps[j] = deps[k]

\* C15: an AddTask call that fails after AddVertex accepted the task leaves
\* the task in the store with every edge it inserted before the failure and
\* no layer unless the failure is the cycle check; no step removes a task or
\* an edge, so a cycle stays, GetExecutionOrder reports a cycle exactly when
\* the store holds one, and AddTask of a task of the store fails with
\* "failed to add task".
C15_NoRollback ==
  /\ [][ret'.op = "AddTask" =>
          \A x \in Registrations :
            (ret'.err # ErrNil /\ CallOf(x)) =>
              IF x[1] \in DOMAIN tasks
              THEN ret'.err = ErrAddTask \/ ~AddTask(x[1], x[2], x[3])
              ELSE AddTask(x[1], x[2], x[3]) =>
                   /\ x[1] \in DOMAIN tasks'
                   /\ edges' \ edges \subseteq {<<x[2][j], x[1]>> : j \in 1..Len(x[2])}
                   /\ ret'.err = ErrInvalidGraph =>
                        /\ EdgesUpTo(edges', x[1], x[2], Len(x[2]))
                        /\ x[1] \in DOMAIN taskLayers'
                   /\ ret'.err = ErrLayerMap =>
                        \E k \in 1..Len(x[2]) :
                          /\ x[2][k] \notin DOMAIN taskLayers
                          /\ EdgesUpTo(edges', x[1], x[2], k)
                          /\ x[1] \notin DOMAIN taskLayers'
                   /\ ret'.err = ErrAddDependency =>
                        \E k \in 1..Len(x[2]) :
                          /\ EdgeRefusedAt(DOMAIN tasks', x[1], x[2], k)
                          /\ EdgesUpTo(edges', x[1], x[2], k - 1)
                          /\ x[1] \notin DOMAIN taskLayers']_vars
  /\ [][/\ DOMAIN tasks \subseteq DOMAIN tasks'
        /\ edges \subseteq edges'
        /\ (tasks' # tasks /\ TopologicalSortFails(DOMAIN tasks, edges))
             => TopologicalSortFails(DOMAIN tasks', edges')]_vars
  /\ [](ret.op = "GetExecutionOrder" =>
          (ret.err = ErrInvalidGraph <=> TopologicalSortFails(DOMAIN tasks, edges)))

\* AddTask refused, as a duplicate, a task whose first AddTask call had
\* failed at its second dependency and left the edge of the first; the store
\* also holds a cycle.
C15_Witness ==
  /\ ret.op = "AddTask"
  /\ ret.err = ErrAddTask
  /\ TopologicalSortFails(DOMAIN tasks, edges)
  /\ \E t \in DOMAIN tasks \ DOMAIN taskLayers :
       /\ Len(tasks[t].Depends) = 2
       /\ tasks[t].Depends[1] # t
       /\ <<tasks[t].Depends[1], t>> \in edges
       /\ <<tasks[t].Depends[2], t>> \notin edges

\* The layer numbers of the layer map have no gap above 0, and the layers
\* array built from a layer map that is not empty has no empty layer.
NoEmptyLayer ==
  /\ \A t \in DOMAIN taskLayers :
       taskLayers[t] > 0 => \E u \in DOMAIN taskLayers : taskLayers[u] = taskLayers[t] - 1
  /\ (pc = "layer" /\ taskLayers # EmptyMap) =>
       /\ Len(layers) = 1 + MaxLayerOf(taskLayers, DOMAIN taskLayers)
       /\ \A i \in 1..Len(layers) : layers[i] # {}

\* Execute ran on an empty layer map.
RanOnEmptyMap == runs > 0 /\ taskLayers = EmptyMap

\* Execute on an empty layer map runs one empty layer and returns an empty
\* results map and a nil error.
EmptyRunSucceeds ==
  /\ pc = "layer" => layers = <<{}>>
  /\ ret.op = "Execute" =>
       ret.err = ErrNil /\ ~ret.isNil /\ ret.results = EmptyMap

\* C19 as stated: the layer numbers are contiguous from 0, the layers array
\* has no empty layer, and Execute on an empty layer map succeeds with an
\* empty results map.
C19_ContiguousLayers ==
  /\ NoEmptyLayer
  /\ RanOnEmptyMap => EmptyRunSucceeds

\* C19 amended: as stated, except that on an empty layer map whose store
\* holds a cycle the engine of task.go runs no layer and returns the
\* "failed to sort tasks" error with a nil map.
C19_ContiguousLayersOrSortError ==
  /\ NoEmptyLayer
  /\ RanOnEmptyMap =>
       IF variant = "task.go" /\ TopologicalSortFails(DOMAIN tasks, edges)
       THEN /\ pc = "idle"
            /\ ret.op = "Execute" =>
                 ret.err = ErrSortTasks /\ ret.isNil /\ ret.results = EmptyMap
       ELSE EmptyRunSucceeds

\* Execute returned an empty results map and no error for a store that
\* holds a task without a layer.
C19_Witness ==
  /\ RanOnEmptyMap
  /\ tasks # EmptyMap
  /\ ret.op = "Execute"
  /\ ret.err = ErrNil
  /\ ret.results = EmptyMap

\* Execute runs the second of the two layers of a layer map, beside which a
\* failed AddTask left a task without a layer.
C19_WitnessLayers ==
  /\ pc = "layer"
  /\ Len(layers) = 2
  /\ cur = 2
  /\ DOMAIN tasks \ DOMAIN taskLayers # {}

\* The task is left alone by every run: no goroutine, no Condition asked, no
\* work function called, Status as registered, no entry in a results map.
NeverRun(t) ==
  /\ t \in DOMAIN tpc => Untouched(t)
  /\ tasks[t].Status = TaskStatusPending
  /\ t \notin DOMAIN results
  /\ t \notin DOMAIN layerResults
  /\ t \notin DOMAIN ret.results

\* C20: a task whose AddTask calls all returned an error is never run.
C20_FailedAddNeverRuns == \A t \in DOMAIN tasks \ added : NeverRun(t)

\* What holds in both engines: a task without a layer is never run.
C20_UnlayeredNeverRuns == \A t \in DOMAIN tasks \ DOMAIN taskLayers : NeverRun(t)

\* A run completed a task of the second layer while a task without a layer
\* stayed as registered.
C20_WitnessUnlayered ==
  /\ DOMAIN tasks \ DOMAIN taskLayers # {}
  /\ \E t \in DOMAIN tpc :
       t \in DOMAIN taskLayers /\ taskLayers[t] = 1 /\ tpc[t] = "completed"

\* The Status values a run may write to one task, in order.
StatusPaths ==
  { <<>>, <<TaskStatusSkipped>>, <<TaskStatusRunning>>,
    <<TaskStatusRunning, TaskStatusCompleted>>,
    <<TaskStatusRunning, TaskStatusFailed>> }

\* C18: in a run the Status values written to a task are Skipped alone, or
\* Running followed by Completed or Failed, and nothing after these; a
\* task's Status changes only in a step of the goroutine the layer executor
\* launched for it, to the value that step writes, and the steps of AddTask,
\* GetExecutionOrder and GetTaskStatus change no Status.
C18_StatusPaths ==
  /\ [](\A t \in DOMAIN writes :
          /\ writes[t] \in StatusPaths
          /\ writes[t] # <<>> => tasks[t].Status = writes[t][Len(writes[t])]
          /\ tpc[t] \in Settled <=>
               /\ writes[t] # <<>>
               /\ writes[t][Len(writes[t])] \in
                    {TaskStatusSkipped, TaskStatusCompleted, TaskStatusFailed})
  /\ [][\A t \in DOMAIN tasks :
          tasks'[t].Status # tasks[t].Status =>
            /\ pc = "layer" /\ pc' = "layer"
            /\ t \in layers[cur]
            /\ launches[t] = 1
            /\ tpc[t] \in {"started", "working"}
            /\ tpc'[t] # tpc[t]
            /\ writes'[t] = Append(writes[t], tasks'[t].Status)
            /\ \A u \in DOMAIN tasks \ {t} : tasks'[u] = tasks[u]]_vars
  /\ [][ret'.op \in {"AddTask", "GetExecutionOrder", "GetTaskStatus"} =>
          \A t \in DOMAIN tasks : tasks'[t] = tasks[t]]_vars

\* In a second run one task was skipped and another failed after it was
\* Running; the run has returned and the status of the skipped task was
\* asked for.
C18_Witness ==
  /\ runs = 2
  /\ \E t, u \in DOMAIN writes :
       /\ writes[t] = <<TaskStatusSkipped>>
       /\ writes[u] = <<TaskStatusRunning, TaskStatusFailed>>
       /\ ret.op = "GetTaskStatus"
       /\ ret.task = t

\* C17: the step in which a work function fails cancels the errgroup's
\* context and not the caller's; a work function called while a task of its
\* layer has failed is given a cancelled context, and one called before any
\* failure of its layer a live one; the caller's context is never cancelled;
\* and when Execute has returned, no goroutine of the run is still launched
\* or working and no task has status Running.
C17_FailureCancelsLayer ==
  /\ [][\A t \in DOMAIN tpc :
          (pc = "layer" /\ tpc[t] = "working" /\ tpc'[t] = "failed") =>
            /\ ctx'.layer
            /\ ctx'.caller = ctx.caller
            /\ pc' = "layer"]_vars
  /\ [][\A t \in DOMAIN tpc :
          (pc = "layer" /\ tpc[t] = "started" /\ tpc'[t] = "working") =>
            workCtx'[t] = IF \E u \in layers[cur] : tpc[u] = "failed"
                          THEN "cancelled" ELSE "live"]_vars
  /\ [](~ctx.caller)
  /\ [](pc = "layer" => (ctx.layer <=> \E u \in layers[cur] : tpc[u] = "failed"))
  /\ [](pc = "idle" =>
          /\ \A t \in DOMAIN tpc : tpc[t] \in Settled \cup {"idle"}
          /\ \A t \in DOMAIN tasks : tasks[t].Status # TaskStatusRunning
          /\ ret.op = "Execute" /\ ret.err = ErrTaskFailed =>
               \A t \in layers[cur] : tpc[t] \in Settled)

\* Execute returned the error of a task; another task of the same layer was
\* launched after the failure, was given the cancelled context and completed.
C17_Witness ==
  /\ ret.op = "Execute"
  /\ ret.err = ErrTaskFailed
  /\ \E t \in layers[cur] :
       /\ t # ret.task
       /\ workCtx[t] = "cancelled"
       /\ tpc[t] = "completed"

\* C16: an Execute call that is running layers returns, and the limit of an
\* errgroup is never 0.
C16_ExecuteReturns ==
  /\ [](limit # 0)
  /\ (pc = "layer") ~> (pc = "idle" /\ ret.op = "Execute")

\* Under the limit 1 Execute returned the results of a run with two tasks in
\* one layer.
C16_Witness ==
  /\ variant = "part_000"
  /\ limit = 1
  /\ ret.op = "Execute"
  /\ ret.err = ErrNil
  /\ \E i \in 1..Len(layers) : Cardinality(layers[i]) = 2
  /\ Cardinality(DOMAIN ret.results) >= 2

\* Each of two overlapping calls works on its own results maps, and every
\* value in them was returned by a work function that call invoked.
ResultsAreOwn ==
  /\ \A t \in DOMAIN results : results[t] = WorkValue(t, runs)
  /\ \A t \in DOMAIN layerResults : layerResults[t] = WorkValue(t, runs)
  /\ \A t \in DOMAIN ret.results : ret.results[t] = WorkValue(t, runs)
  /\ \A t \in DOMAIN other.results : other.results[t] = WorkValue(t, OtherRun)
  /\ \A t \in DOMAIN other.layerResults :
       other.layerResults[t] = WorkValue(t, OtherRun)
  /\ \A t \in DOMAIN other.ret.results :
       other.ret.results[t] = WorkValue(t, OtherRun)

\* In each of two overlapping calls the errgroup of every layer has the
\* limit the call started with, and the layers are those of the layer map.
LimitsAreOwn ==
  /\ pc = "layer" =>
       /\ limit = LayerLimit(variant, runOpts)
       /\ layers = LayersOf(taskLayers)
  /\ other.pc = "layer" =>
       /\ other.limit = LayerLimit(variant, other.runOpts)
       /\ other.layers = LayersOf(taskLayers)

\* C13: two Execute calls that overlap have their own results maps, with
\* values of their own work function calls only, and the worker limit and
\* the layers of each are not changed by the other.
C13_OverlappingCallsIndependent == ResultsAreOwn /\ LimitsAreOwn

\* The part of C13 that holds in both engines: the results maps.
C13_ResultsAreOwn == ResultsAreOwn

\* C13 holds in the engine of task.go, which keeps its options by value.
C13_IndependentTaskGo == variant = "task.go" => C13_OverlappingCallsIndependent

\* Both of two overlapping calls returned a results map with the values of
\* two tasks.
C13_WitnessBothReturned ==
  /\ other.pc = "done"
  /\ ret.op = "Execute"
  /\ Cardinality(DOMAIN ret.results) = 2
  /\ Cardinality(DOMAIN other.ret.results) = 2

====
